---- MODULE Spec2Model ----
(***************************************************************************)
(* Session lifecycle manager and checkpointed sequence executor of the     *)
(* browser-automation server (src/server.py).                              *)
(*                                                                         *)
(* The server is one asyncio event loop: a request handler runs without    *)
(* interruption from one `await` on the engine to the next, and handlers   *)
(* of different requests interleave only at those awaits.  A task of the   *)
(* model is one request in progress; each action below is the code a       *)
(* handler runs between two suspension points.  An engine call resolves    *)
(* with an outcome "ok" or "fail" chosen by the environment (a call on a   *)
(* page whose context was closed can only fail).                           *)
(*                                                                         *)
(* Not modelled: the fields of the metadata that no decision reads         *)
(* (created_at, browser_type, headless, viewport, per-entry timestamps),   *)
(* the url/selector/text/timeout parameters of an action, which are only   *)
(* handed to the engine, and the response timestamps.                      *)
(***************************************************************************)
EXTENDS Integers, Sequences, FiniteSets, TLC

\* ---------------------------------------------------------------- bounds
MaxAdds == 4        \* direct calls of the asset recorder in one behaviour
MaxActions == 3     \* actions submitted in one behaviour, over all lists
MaxTime == 4        \* last clock reading (in ticks)
MaxHeap == 2        \* engine launches in one behaviour
TicksPerSecond == 3 \* clock ticks in one second (sub-second resolution)

SessionIds == {"a", "b"}    \* the values uuid4()[:8] can take
\* The requests of one behaviour, one handler each, named in the order they
\* arrive; Pair is the first two.
TaskOrder == <<"r1", "r2", "r3">>
Tasks == { TaskOrder[k] : k \in 1..Len(TaskOrder) }
Pair == { TaskOrder[k] : k \in 1..2 }

\* ------------------------------------------------------ program constants
SecondsPerHour == 3600
FilenameWidth == 3

NoObj == 0
NoMeta == [absent |-> TRUE]
Malformed == [malformed |-> TRUE]   \* a metadata.json that json.load rejects
NoDir == [exists |-> FALSE, meta |-> NoMeta, files |-> {}]
NoPath == <<>>

AssetTypes == {"screenshots", "videos", "traces"}

\* ------------------------------------------------------------- actions
\* SequenceAction: the action tag and the screenshot_after flag.
PageKinds == {"goto", "click", "type", "wait"}
CheckpointKind == "wait_for_screenshot_analysis"
ActionVariants ==
    { [action |-> "goto", screenshot_after |-> FALSE],
      [action |-> "click", screenshot_after |-> TRUE],
      [action |-> CheckpointKind, screenshot_after |-> FALSE],
      [action |-> "scroll", screenshot_after |-> FALSE] }

ActionLists(n) == UNION { [1..k -> ActionVariants] : k \in 0..n }

\* ------------------------------------------------------------ filenames
RECURSIVE DecDigits(_)
DecDigits(n) == IF n < 10 THEN <<n>> ELSE Append(DecDigits(n \div 10), n % 10)

RECURSIVE PadLeft(_, _)
PadLeft(d, w) == IF Len(d) >= w THEN d ELSE PadLeft(<<0>> \o d, w)

\* f"{seq_num:03d}"
Fmt03(n) == PadLeft(DecDigits(n), FilenameWidth)

\* A string is the sequence of its space-separated words; .replace(" ", "_")
\* joins them with underscores.
Underscored(words) == [sep |-> "_", words |-> words]

AssetExt(kind) ==
    CASE kind = "screenshots" -> "png"
      [] kind = "videos" -> "webm"
      [] kind = "traces" -> "zip"

ScreenshotFilename(seq, action, description) ==
    <<Fmt03(seq), Underscored(<<action>> \o description), "png">>
VideoFilename(seq, description) ==
    <<Fmt03(seq), Underscored(description), "webm">>
TraceFilename(seq, description) ==
    <<Fmt03(seq), Underscored(description), "zip">>

\* {session_dir}/{kind}/{filename}
AssetPath(sid, kind, filename) == <<"sessions", sid, kind, filename>>

\* {recordings_dir}/screenshots/session_{id}_analysis_{i}.png ; i is 0-based
AnalysisPath_OneBased(sid, i) == <<"screenshots", sid, "analysis", i + 1>>

AnalysisPath(sid, i) == <<"screenshots", sid, "analysis", i>>
StepPath(sid, i) == <<"screenshots", sid, "step", i>>
ErrorPath(sid) == <<"screenshots", sid, "error">>

\* datetime.isoformat() keeps the reading to the microsecond, and
\* datetime.fromisoformat(...).timestamp() gives it back.
IsoFormat(t) == <<"iso", t>>
FromIsoFormat(s) == s[2]

\* archived/session_{id}_{int(last_activity)}
Epoch(t) == t \div TicksPerSecond
ArchiveName(sid, last_activity) == <<sid, Epoch(last_activity)>>

\* ------------------------------------------------------------- state
VARIABLES
    sessions,   \* SessionManager.sessions: session id -> heap index, or NoObj
    heap,       \* the engine handles and session_data dicts ever built
    disk,       \* recordings/sessions/session_<id>/ : directory, metadata.json, files
    archive,    \* recordings/archived/ : the directories moved there
    gshots,     \* recordings/screenshots/ : the files written there
    now,        \* the last clock reading
    adds,       \* direct calls of the asset recorder so far
    submitted,  \* actions submitted so far
    task        \* the requests in progress

vars == <<sessions, heap, disk, archive, gshots, now, adds, submitted, task>>

\* The dict built at lines 129-141 and its "metadata" entry (lines 150-164),
\* together with the engine handles it owns.  eng is the state of the
\* playwright/browser/context/page handles.
NewMetadata_Completed(sid, record_video, t) ==
    [ session_id |-> sid,
      record_video |-> record_video,
      status |-> "completed",
      total_actions |-> 0,
      screenshots |-> <<>>,
      videos |-> <<>>,
      traces |-> <<>>,
      last_activity |-> IsoFormat(t) ]

NewMetadata(sid, record_video, t) ==
    [ session_id |-> sid,
      record_video |-> record_video,
      status |-> "active",
      total_actions |-> 0,
      screenshots |-> <<>>,
      videos |-> <<>>,
      traces |-> <<>>,
      last_activity |-> IsoFormat(t) ]

NewHandle ==
    [ eng |-> "launched",
      registered |-> FALSE,
      screenshots |-> <<>>,
      videos |-> <<>>,
      traces |-> <<>>,
      action_count |-> 0,
      last_activity |-> 0,
      recording_video |-> FALSE,
      metadata |-> NoMeta ]

\* session_data with the context and the page open (lines 126-141, 166)
SessionData(metadata, record_video, t) ==
    [NewHandle EXCEPT !.eng = "ready", !.last_activity = t,
                      !.recording_video = record_video,
                      !.metadata = metadata]

\* record_video_dir: a recording context writes the video of its page under
\* {session_dir}/videos/ from the creation of the page on.
ContextDirectory(d, record_video, o) ==
    IF record_video
    THEN [exists |-> TRUE, meta |-> d.meta,
          files |-> d.files \cup {<<"videos", "raw", o>>}]
    ELSE d

World == [sessions |-> sessions, heap |-> heap, disk |-> disk,
          archive |-> archive, raised |-> FALSE, value |-> NoPath]

\* What time.time() / datetime.now() can return: the readings of one block of
\* synchronous code are taken as one instant, and the clock has advanced
\* between two such blocks.
TimeReadings == { n \in {now + 1} : n <= MaxTime }

\* ------------------------------------------------------- SessionManager
\* a create_session that leaves the directory to a later step
CreateSessionDirectory_Skipped(d) == d

\* _create_session_directory: os.makedirs(..., exist_ok=True)
CreateSessionDirectory(d) ==
    IF d.exists THEN d ELSE [exists |-> TRUE, meta |-> NoMeta, files |-> {}]

\* _save_session_metadata: open(metadata_path, 'w') raises when the session
\* directory is gone; otherwise the file is overwritten whole.
SaveSessionMetadata(w, sid, metadata) ==
    IF w.disk[sid].exists
    THEN [w EXCEPT !.disk[sid].meta = metadata]
    ELSE [w EXCEPT !.raised = TRUE]

\* get_session
GetSession(sid) == sessions[sid]

\* a numbering that does not look at the records
GetNextSequenceNumber_AlwaysFirst(w, sid, asset_type) == 1

\* _get_next_sequence_number
GetNextSequenceNumber_OffByOne(w, sid, asset_type) ==
    IF w.sessions[sid] = NoObj THEN 1
    ELSE Len(w.heap[w.sessions[sid]].metadata[asset_type])

GetNextSequenceNumber(w, sid, asset_type) ==
    IF w.sessions[sid] = NoObj THEN 1
    ELSE Len(w.heap[w.sessions[sid]].metadata[asset_type]) + 1

\* add_screenshot
AddScreenshot(w, sid, action, description, t) ==
    LET o == w.sessions[sid] IN
    IF o = NoObj THEN [w EXCEPT !.value = NoPath]
    ELSE
      LET seq_num == GetNextSequenceNumber(w, sid, "screenshots")
          filename == ScreenshotFilename(seq_num, action, description)
          filepath == AssetPath(w.heap[o].metadata.session_id, "screenshots", filename)
          entry == [filename |-> filename, filepath |-> filepath, sequence |-> seq_num]
          w1 == [w EXCEPT
                   !.heap[o].screenshots = Append(@, filepath),
                   !.heap[o].metadata.screenshots = Append(@, entry),
                   !.heap[o].metadata.total_actions = @ + 1,
                   !.heap[o].metadata.last_activity = IsoFormat(t),
                   !.heap[o].last_activity = t,
                   !.value = filepath]
      IN SaveSessionMetadata(w1, sid, w1.heap[o].metadata)

\* add_video
AddVideo(w, sid, description, t) ==
    LET o == w.sessions[sid] IN
    IF o = NoObj THEN [w EXCEPT !.value = NoPath]
    ELSE
      LET seq_num == GetNextSequenceNumber(w, sid, "videos")
          filename == VideoFilename(seq_num, description)
          filepath == AssetPath(w.heap[o].metadata.session_id, "videos", filename)
          entry == [filename |-> filename, filepath |-> filepath, sequence |-> seq_num]
          w1 == [w EXCEPT
                   !.heap[o].videos = Append(@, filepath),
                   !.heap[o].metadata.videos = Append(@, entry),
                   !.heap[o].metadata.last_activity = IsoFormat(t),
                   !.value = filepath]
      IN SaveSessionMetadata(w1, sid, w1.heap[o].metadata)

\* add_trace
AddTrace(w, sid, description, t) ==
    LET o == w.sessions[sid] IN
    IF o = NoObj THEN [w EXCEPT !.value = NoPath]
    ELSE
      LET seq_num == GetNextSequenceNumber(w, sid, "traces")
          filename == TraceFilename(seq_num, description)
          filepath == AssetPath(w.heap[o].metadata.session_id, "traces", filename)
          entry == [filename |-> filename, filepath |-> filepath, sequence |-> seq_num]
          w1 == [w EXCEPT
                   !.heap[o].traces = Append(@, filepath),
                   !.heap[o].metadata.traces = Append(@, entry),
                   !.heap[o].metadata.last_activity = IsoFormat(t),
                   !.value = filepath]
      IN SaveSessionMetadata(w1, sid, w1.heap[o].metadata)

\* -------------------------------------------------------------- tasks
\* CommandInput: an Optional[str] key is absent (None) or a text, taken as
\* the list of its words; the empty text has none.
NotProvided == [given |-> FALSE, text |-> <<>>]
Provided(text) == [given |-> TRUE, text |-> text]
Texts == { <<>>, <<"ls">>, <<"ls", "-l">> }
OptionalTexts == {NotProvided} \cup { Provided(x) : x \in Texts }

\* A response: the "status" of the JSON body, or the HTTP status of a fault
\* (404 from the explicit HTTPException, 500 from an exception no handler
\* catches).
Response(status) ==
    [ status |-> status, completed |-> <<>>, next_actions |-> <<>>,
      shot |-> NoPath, cleaned |-> <<>> ]

IdleTask ==
    [ op |-> "idle", pc |-> "idle", sid |-> "none", obj |-> NoObj,
      rv |-> FALSE,
      \* execute_sequence locals
      acts |-> <<>>, i |-> 0, res |-> <<>>, shots |-> <<>>,
      cur |-> [action |-> "none", step |-> 0, status |-> "none", shot |-> NoPath],
      \* cleanup_old_sessions locals
      todo |-> <<>>, ct |-> 0, hours |-> 0, meta |-> NoMeta, cleaned |-> <<>>,
      \* the response, once the request has returned
      ret |-> Response("none"),
      \* history: the actions this call applied to the page (0-based indices),
      \* the list first submitted and what the calls resubmitting its
      \* continuations returned and applied, the engine calls of this call
      \* (step, call, outcome), the directories a sweep listed, the store when
      \* it started
      applied |-> <<>>, orig |-> <<>>, allres |-> <<>>, allapplied |-> <<>>,
      log |-> <<>>,
      glob |-> <<>>,
      before |-> {},
      \* execute_command: the two keys of the body and the argv given to
      \* subprocess.run (empty when no process was started)
      command |-> NotProvided, term |-> NotProvided, ran |-> <<>> ]

\* A request starts once: the requests are named in their order of arrival.
CanStart(t) ==
    /\ task[t].pc = "idle"
    /\ \A k \in 1..Len(TaskOrder) :
          TaskOrder[k] = t => \A j \in 1..(k - 1) : task[TaskOrder[j]].pc # "idle"

Return(st, response) == [st EXCEPT !.pc = "done", !.ret = response]

\* The outcomes of an engine call on the page of heap object o: a call on a
\* closed context or browser fails ("Target closed"); on a live page it
\* succeeds or fails (selector miss, navigation error, timeout, dead engine).
PageOutcomes(o) == IF heap[o].eng = "ready" THEN {"ok", "fail"} ELSE {"fail"}

\* ------------------------------------------- POST /api/sessions/create
\* session_id = str(uuid.uuid4())[:8]; create_session up to the first await.
CreateBegin(t, sid, record_video) ==
    /\ CanStart(t)
    /\ Len(heap) < MaxHeap
    /\ adds' = adds
    /\ disk' = [disk EXCEPT ![sid] = CreateSessionDirectory(@)]
    /\ task' = [task EXCEPT ![t] =
                  [IdleTask EXCEPT !.op = "create", !.pc = "create_launch",
                                   !.sid = sid, !.rv = record_video]]
    /\ UNCHANGED <<sessions, heap, archive, gshots, now, submitted>>

\* async_playwright().__aenter__() and browser_launcher.launch()
CreateLaunched(t, outcome) ==
    /\ task[t].pc = "create_launch"
    /\ IF outcome = "ok"
       THEN /\ heap' = Append(heap, NewHandle)
            /\ task' = [task EXCEPT ![t].pc = "create_context",
                                    ![t].obj = Len(heap) + 1]
       ELSE /\ heap' = heap
            /\ task' = [task EXCEPT ![t] = Return(@, Response("http_500"))]
    /\ UNCHANGED <<sessions, disk, archive, gshots, now, adds, submitted>>

\* browser.new_context(), context.new_page(), then lines 129-170: the dict,
\* the metadata, its file, the registration.  A recording context starts
\* writing its video under {session_dir}/videos/.
CreateReady(t, outcome, tm) ==
    /\ task[t].pc = "create_context"
    /\ LET o == task[t].obj
           sid == task[t].sid
       IN
       IF outcome = "ok"
       THEN
         LET metadata == NewMetadata(sid, task[t].rv, tm)
             d0 == ContextDirectory(disk[sid], task[t].rv, o)
             data == SessionData(metadata, task[t].rv, tm)
             w0 == [World EXCEPT !.heap[o] = data, !.disk[sid] = d0]
             w1 == SaveSessionMetadata(w0, sid, metadata)
         IN
         /\ now' = tm
         /\ disk' = w1.disk
         /\ IF w1.raised
            THEN /\ heap' = w1.heap
                 /\ sessions' = sessions
                 /\ task' = [task EXCEPT ![t] = Return(@, Response("http_500"))]
            ELSE /\ heap' = [w1.heap EXCEPT ![o].registered = TRUE]
                 /\ sessions' = [sessions EXCEPT ![sid] = o]
                 /\ task' = [task EXCEPT ![t] = Return(@, Response("success"))]
       ELSE
         /\ task' = [task EXCEPT ![t] = Return(@, Response("http_500"))]
         /\ UNCHANGED <<sessions, heap, disk, now>>
    /\ UNCHANGED <<archive, gshots, adds, submitted>>

\* ------------------------------ POST /api/sessions/{session_id}/screenshot
\* take_screenshot up to `await page.screenshot`: the record is added first.
TakeScreenshotBegin(t, sid, tm) ==
    /\ CanStart(t)
    /\ adds' = adds
    /\ IF GetSession(sid) = NoObj
       THEN /\ task' = [task EXCEPT ![t] =
                    Return([IdleTask EXCEPT !.op = "screenshot", !.sid = sid],
                           Response("http_404"))]
            /\ UNCHANGED <<heap, disk, now>>
       ELSE LET w1 == AddScreenshot(World, sid, "manual", <<"screenshot">>, tm)
                st == [IdleTask EXCEPT !.op = "screenshot", !.sid = sid,
                                       !.obj = GetSession(sid)]
            IN /\ now' = tm
               /\ heap' = w1.heap
               /\ disk' = w1.disk
               /\ task' = [task EXCEPT ![t] =
                    IF w1.raised THEN Return(st, Response("http_500"))
                    ELSE [st EXCEPT !.pc = "take_shot", !.ret.shot = w1.value]]
    /\ UNCHANGED <<sessions, archive, gshots, submitted>>

\* page.screenshot(path=screenshot_path) resolves; a failure is not caught.
TakeScreenshotDone(t, outcome) ==
    /\ task[t].pc = "take_shot"
    /\ outcome \in PageOutcomes(task[t].obj)
    /\ LET path == task[t].ret.shot
           sid == path[2]
       IN
       IF outcome = "ok"
       THEN /\ disk' = [disk EXCEPT ![sid].exists = TRUE,
                                    ![sid].files = @ \cup {<<path[3], path[4]>>}]
            /\ task' = [task EXCEPT ![t] =
                          Return(@, [Response("success") EXCEPT !.shot = path])]
       ELSE /\ disk' = disk
            /\ task' = [task EXCEPT ![t] = Return(@, Response("http_500"))]
    /\ UNCHANGED <<sessions, heap, archive, gshots, now, adds, submitted>>

\* -------------------------------- POST /api/sessions/{session_id}/sequence
\* result = {"action": action.action, "step": i}
StepResult(action, i) ==
    [action |-> action.action, step |-> i, status |-> "none", shot |-> NoPath]

\* sequence_input.actions[i+1:] (i is 0-based, sequences are 1-based)
NextActions_SkipsOne(acts, i) == SubSeq(acts, i + 3, Len(acts))

NextActions(acts, i) == SubSeq(acts, i + 2, Len(acts))

\* The response of the checkpoint branch (lines 837-845).
PausedResponse_DropsCheckpoint(st, path) ==
    [ Response("paused_for_analysis") EXCEPT
        !.shot = path,
        !.next_actions = NextActions(st.acts, st.i),
        !.completed = SubSeq(st.res, 1, Len(st.res) - 1) ]

PausedResponse(st, path) ==
    [ Response("paused_for_analysis") EXCEPT
        !.shot = path,
        !.next_actions = NextActions(st.acts, st.i),
        !.completed = st.res ]

\* The response after the loop (lines 861-868).
CompletedResponse(st) == [Response("completed") EXCEPT !.completed = st.res]

\* The response of the except branch (lines 875-882).
ErrorResponse(st) ==
    [Response("error") EXCEPT !.completed = st.res, !.shot = ErrorPath(st.sid)]

\* a loop that takes a checkpoint for an action of unknown kind
RECURSIVE SequenceLoop_IgnoresCheckpoint(_)
SequenceLoop_IgnoresCheckpoint(st) ==
    IF st.i >= Len(st.acts) THEN Return(st, CompletedResponse(st))
    ELSE
      LET action == st.acts[st.i + 1]
          result == StepResult(action, st.i)
      IN
      IF action.action \in PageKinds
        THEN [st EXCEPT !.pc = "seq_action", !.cur = result]
      ELSE SequenceLoop_IgnoresCheckpoint(
               [st EXCEPT !.res = Append(@, [result EXCEPT !.status = "error"]),
                          !.i = @ + 1])

\* The for loop from the top of iteration st.i to the next await or return.
\* An action of unknown kind gets an error result and the loop goes on.
RECURSIVE SequenceLoop(_)
SequenceLoop(st) ==
    IF st.i >= Len(st.acts) THEN Return(st, CompletedResponse(st))
    ELSE
      LET action == st.acts[st.i + 1]
          result == StepResult(action, st.i)
      IN
      IF action.action \in PageKinds
        THEN [st EXCEPT !.pc = "seq_action", !.cur = result]
      ELSE IF action.action = CheckpointKind
        THEN [st EXCEPT !.pc = "seq_checkpoint", !.cur = result]
      ELSE IF action.screenshot_after
        THEN [st EXCEPT !.pc = "seq_after", !.cur = [result EXCEPT !.status = "error"]]
      ELSE SequenceLoop([st EXCEPT !.res = Append(@, [result EXCEPT !.status = "error"]),
                                  !.i = @ + 1])

\* Lines 791-799 and the loop up to its first await.
SequenceBegin(t, sid, acts) ==
    /\ CanStart(t)
    /\ adds' = adds
    /\ task' = [task EXCEPT ![t] =
         IF GetSession(sid) = NoObj
         THEN Return([IdleTask EXCEPT !.op = "sequence", !.sid = sid],
                     Response("http_404"))
         ELSE SequenceLoop([IdleTask EXCEPT !.op = "sequence", !.sid = sid,
                                            !.obj = GetSession(sid),
                                            !.acts = acts, !.orig = acts])]
    /\ submitted' = submitted + Len(acts)
    /\ UNCHANGED <<sessions, heap, disk, archive, gshots, now>>

\* The caller resumes a paused run: it submits the returned next_actions to
\* the same session id.
AppliedActions(st) == [k \in 1..Len(st.applied) |-> st.acts[st.applied[k] + 1]]

SequenceResubmit(t) ==
    /\ task[t].pc = "done"
    /\ task[t].op = "sequence"
    /\ task[t].ret.status = "paused_for_analysis"
    /\ LET old == task[t]
           st == [IdleTask EXCEPT !.op = "sequence", !.sid = old.sid,
                                  !.acts = old.ret.next_actions,
                                  !.orig = old.orig,
                                  !.allres = old.allres \o old.ret.completed,
                                  !.allapplied = old.allapplied \o AppliedActions(old)]
       IN task' = [task EXCEPT ![t] =
            IF GetSession(old.sid) = NoObj
            THEN Return(st, Response("http_404"))
            ELSE SequenceLoop([st EXCEPT !.obj = GetSession(old.sid)])]
    /\ UNCHANGED <<sessions, heap, disk, archive, gshots, now, adds, submitted>>

\* page.goto / click / fill / wait_for_timeout resolves (lines 804-823).
SequenceActionDone(t, outcome) ==
    /\ task[t].pc = "seq_action"
    /\ outcome \in PageOutcomes(task[t].obj)
    /\ LET st == [task[t] EXCEPT !.log = Append(@, <<task[t].i, "action", outcome>>)]
           action == st.acts[st.i + 1]
           done == [st EXCEPT !.cur.status = "success",
                              !.applied = Append(@, st.i)]
       IN task' = [task EXCEPT ![t] =
            IF outcome = "fail" THEN [st EXCEPT !.pc = "seq_error"]
            ELSE IF action.screenshot_after THEN [done EXCEPT !.pc = "seq_after"]
            ELSE SequenceLoop([done EXCEPT !.res = Append(@, done.cur),
                                           !.i = @ + 1])]
    /\ UNCHANGED <<sessions, heap, disk, archive, gshots, now, adds, submitted>>

\* The screenshot_after capture resolves (lines 852-859).
SequenceAfterShotDone(t, outcome) ==
    /\ task[t].pc = "seq_after"
    /\ outcome \in PageOutcomes(task[t].obj)
    /\ LET st == [task[t] EXCEPT !.log = Append(@, <<task[t].i, "after", outcome>>)]
           path == StepPath(st.sid, st.i)
           result == [st.cur EXCEPT !.shot = path]
       IN
       IF outcome = "ok"
       THEN /\ gshots' = gshots \cup {path}
            /\ heap' = [heap EXCEPT ![st.obj].screenshots = Append(@, path)]
            /\ task' = [task EXCEPT ![t] =
                 SequenceLoop([st EXCEPT !.shots = Append(@, path),
                                         !.res = Append(@, result),
                                         !.i = @ + 1])]
       ELSE /\ task' = [task EXCEPT ![t] = [st EXCEPT !.pc = "seq_error"]]
            /\ UNCHANGED <<gshots, heap>>
    /\ UNCHANGED <<sessions, disk, archive, now, adds, submitted>>

\* The checkpoint capture resolves (lines 825-845).
SequenceCheckpointDone(t, outcome) ==
    /\ task[t].pc = "seq_checkpoint"
    /\ outcome \in PageOutcomes(task[t].obj)
    /\ LET st == [task[t] EXCEPT !.log = Append(@, <<task[t].i, "checkpoint", outcome>>)]
           path == AnalysisPath(st.sid, st.i)
           result == [st.cur EXCEPT !.status = "waiting_for_analysis", !.shot = path]
           paused == [st EXCEPT !.shots = Append(@, path), !.res = Append(@, result)]
       IN
       IF outcome = "ok"
       THEN /\ gshots' = gshots \cup {path}
            /\ heap' = [heap EXCEPT ![st.obj].screenshots = Append(@, path)]
            /\ task' = [task EXCEPT ![t] = Return(paused, PausedResponse(paused, path))]
       ELSE /\ task' = [task EXCEPT ![t] = [st EXCEPT !.pc = "seq_error"]]
            /\ UNCHANGED <<gshots, heap>>
    /\ UNCHANGED <<sessions, disk, archive, now, adds, submitted>>

\* The error screenshot of the except branch resolves (lines 870-882); if it
\* fails too, the exception leaves the handler.
SequenceErrorShotDone(t, outcome) ==
    /\ task[t].pc = "seq_error"
    /\ outcome \in PageOutcomes(task[t].obj)
    /\ LET st == [task[t] EXCEPT !.log = Append(@, <<task[t].i, "error", outcome>>)] IN
       IF outcome = "ok"
       THEN /\ gshots' = gshots \cup {ErrorPath(st.sid)}
            /\ task' = [task EXCEPT ![t] = Return(st, ErrorResponse(st))]
       ELSE /\ gshots' = gshots
            /\ task' = [task EXCEPT ![t] = Return(st, Response("http_500"))]
    /\ UNCHANGED <<sessions, heap, disk, archive, now, adds, submitted>>

\* --------------------------------------- SessionManager.close_session
\* os.listdir of {session_dir}/videos/ filtered on '.webm'
VideoFiles(d) == { f \in d.files : f[1] = "videos" }

\* video_files[0]: os.listdir returns the names in an arbitrary order.  A
\* listing order gives, for each session directory, the name that comes first.
ListingOrders ==
    { p \in [SessionIds -> UNION { VideoFiles(disk[s]) : s \in SessionIds } \cup {NoPath}] :
        \A s \in SessionIds :
            IF VideoFiles(disk[s]) = {} THEN p[s] = NoPath
            ELSE p[s] \in VideoFiles(disk[s]) }

\* if session["metadata"].get("record_video", False)
WantsVideo_Always(metadata) == TRUE

WantsVideo(metadata) == metadata.record_video

\* a close that goes straight to the release of the engine
CloseSessionSync_Skipped(w, sid, tm, first) == w

\* Lines 268-289: the video of a recording session is registered and renamed,
\* the status becomes "completed", the metadata is written.
CloseSessionSync(w, sid, tm, first) ==
    LET o == w.sessions[sid]
        d == w.disk[sid]
        w1 == IF WantsVideo(w.heap[o].metadata) /\ d.exists /\ VideoFiles(d) # {}
              THEN LET wv == AddVideo(w, sid, <<"session_recording">>, tm)
                       new == <<"videos", wv.value[4]>>
                   IN IF wv.raised THEN wv
                      ELSE [wv EXCEPT !.disk[sid].files = (@ \ {first}) \cup {new}]
              ELSE w
        w2 == [w1 EXCEPT !.heap[o].metadata.status = "completed",
                         !.heap[o].metadata.last_activity = IsoFormat(tm)]
    IN IF w1.raised THEN w1 ELSE SaveSessionMetadata(w2, sid, w2.heap[o].metadata)

\* await context.close() has returned
ContextClosed(h) == IF h.eng = "ready" THEN [h EXCEPT !.eng = "ctx_closed"] ELSE h

\* a close that leaves the engine running
BrowserClosed_Leaks(h) == h

\* await browser.close() and playwright.__aexit__() have returned
BrowserClosed(h) == [h EXCEPT !.eng = "released"]

\* a close that empties the store
DeleteSession_All(w, sid) ==
    [w EXCEPT !.sessions = [s \in SessionIds |-> NoObj]]

\* del self.sessions[session_id]: KeyError when the id is no longer a key
DeleteSession(w, sid) ==
    IF w.sessions[sid] = NoObj THEN [w EXCEPT !.raised = TRUE]
    ELSE [w EXCEPT !.sessions[sid] = NoObj]

\* ------------------------------------- DELETE /api/sessions/{session_id}
CloseBegin(t, sid, tm, order) ==
    /\ CanStart(t)
    /\ adds' = adds
    /\ IF GetSession(sid) = NoObj
       THEN /\ task' = [task EXCEPT ![t] =
                    Return([IdleTask EXCEPT !.op = "close", !.sid = sid],
                           Response("http_404"))]
            /\ UNCHANGED <<heap, disk, now>>
       ELSE LET w1 == CloseSessionSync(World, sid, tm, order[sid])
                st == [IdleTask EXCEPT !.op = "close", !.sid = sid,
                                       !.obj = GetSession(sid)]
            IN /\ now' = tm
               /\ heap' = w1.heap
               /\ disk' = w1.disk
               /\ task' = [task EXCEPT ![t] =
                    IF w1.raised THEN Return(st, Response("http_500"))
                    ELSE [st EXCEPT !.pc = "close_context"]]
    /\ UNCHANGED <<sessions, archive, gshots, submitted>>

\* await session["context"].close() has returned (line 291).  The release
\* calls of the engine are taken to succeed, also on a handle already released.
CloseContextDone(t) ==
    /\ task[t].pc = "close_context"
    /\ task[t].op = "close"
    /\ heap' = [heap EXCEPT ![task[t].obj] = ContextClosed(@)]
    /\ task' = [task EXCEPT ![t].pc = "close_browser"]
    /\ UNCHANGED <<sessions, disk, archive, gshots, now, adds, submitted>>

\* browser.close() and playwright.__aexit__() have returned; lines 294 and
\* 750-755.  The KeyError of the del is caught by nobody.
CloseBrowserDone(t) ==
    /\ task[t].pc = "close_browser"
    /\ task[t].op = "close"
    /\ LET w0 == [World EXCEPT !.heap[task[t].obj] = BrowserClosed(@)]
           w1 == DeleteSession(w0, task[t].sid)
       IN /\ heap' = w1.heap
          /\ sessions' = w1.sessions
          /\ task' = [task EXCEPT ![t] =
               Return(@, Response(IF w1.raised THEN "http_500" ELSE "success"))]
    /\ UNCHANGED <<disk, archive, gshots, now, adds, submitted>>

\* ------------------------------------- POST /api/sessions/cleanup-old
\* max_age_seconds = max_age_hours * 3600, in clock ticks
MaxAgeTicks(hours) == hours * SecondsPerHour * TicksPerSecond

\* current_time - last_activity > max_age_seconds
IsOld_OrEqual(current_time, last_activity, hours) ==
    current_time - last_activity >= MaxAgeTicks(hours)

IsOld(current_time, last_activity, hours) ==
    current_time - last_activity > MaxAgeTicks(hours)

\* shutil.move(session_path, archived_dir): a rename when archived_dir does
\* not exist; a move INTO archived_dir when it is an existing directory; an
\* error when the source is gone or that inner destination exists too.
ShutilMove(w, sid, name) ==
    LET d == w.disk[sid]
        top == { a \in w.archive : a.name = name /\ ~a.nested }
        inner == { a \in w.archive : a.name = name /\ a.nested /\ a.sid = sid }
        entry(nested) == [name |-> name, nested |-> nested, sid |-> sid,
                          meta |-> d.meta, files |-> d.files]
    IN IF ~d.exists THEN [w EXCEPT !.raised = TRUE]
       ELSE IF top = {}
         THEN [w EXCEPT !.archive = @ \cup {entry(FALSE)}, !.disk[sid] = NoDir]
       ELSE IF inner = {}
         THEN [w EXCEPT !.archive = @ \cup {entry(TRUE)}, !.disk[sid] = NoDir]
       ELSE [w EXCEPT !.raised = TRUE]

\* Lines 1242-1250: the move and the entry of cleaned_sessions; an exception
\* skips the session (line 1252).
ArchiveSession(x) ==
    LET sid == x.st.meta.session_id
        la == FromIsoFormat(x.st.meta.last_activity)
        w1 == ShutilMove(x.w, sid, ArchiveName(sid, la))
    IN IF w1.raised THEN [x EXCEPT !.w.raised = TRUE]
       ELSE [x EXCEPT !.w = w1,
                      !.st.cleaned = Append(@, [session_id |-> sid,
                                                archived_to |-> ArchiveName(sid, la)])]

\* The response (lines 1255-1261).
SweepResponse(st) == [Response("success") EXCEPT !.cleaned = st.cleaned]

\* The for loop from the next directory of the glob to the next await (inside
\* close_session) or to the return.  x.w is the world, x.st the task.
RECURSIVE SweepLoop(_, _, _)

\* except Exception as e: continue (lines 1252-1253)
OnException_Aborts(x, tm, order) ==
    [x EXCEPT !.w.raised = FALSE, !.st = Return(@, Response("http_500"))]

OnException(x, tm, order) == SweepLoop([x EXCEPT !.w.raised = FALSE], tm, order)

\* the loop after the body of one iteration, which has raised or not
Continue(x, tm, order) ==
    IF x.w.raised THEN OnException(x, tm, order) ELSE SweepLoop(x, tm, order)

SweepLoop(x, tm, order) ==
    IF x.st.todo = <<>> THEN [x EXCEPT !.st = Return(@, SweepResponse(@))]
    ELSE
      LET dir == Head(x.st.todo)
          d == x.w.disk[dir]
          x1 == [x EXCEPT !.st.todo = Tail(@)]
      IN
      IF ~(d.exists /\ d.meta # NoMeta) THEN SweepLoop(x1, tm, order)
      ELSE IF d.meta = Malformed
        THEN OnException([x1 EXCEPT !.w.raised = TRUE], tm, order)
      ELSE IF ~IsOld(x.st.ct, FromIsoFormat(d.meta.last_activity), x.st.hours)
        THEN SweepLoop(x1, tm, order)
      ELSE
        LET sid == d.meta.session_id
            x2 == [x1 EXCEPT !.st.meta = d.meta]
        IN
        IF x.w.sessions[sid] # NoObj
        THEN LET w1 == CloseSessionSync(x.w, sid, tm, order[sid])
             IN IF w1.raised
                THEN OnException([x1 EXCEPT !.w = w1, !.read = TRUE], tm, order)
                ELSE [x2 EXCEPT !.w = w1, !.read = TRUE,
                                !.st.pc = "close_context",
                                !.st.sid = sid,
                                !.st.obj = x.w.sessions[sid]]
        ELSE Continue(ArchiveSession(x2), tm, order)

\* The effect of one block of the sweep on the state.
SweepCommit(t, x, tm) ==
    /\ sessions' = x.w.sessions
    /\ heap' = x.w.heap
    /\ disk' = x.w.disk
    /\ archive' = x.w.archive
    /\ x.read => tm <= MaxTime
    /\ now' = IF x.read THEN tm ELSE now
    /\ task' = [task EXCEPT ![t] = x.st]

\* glob.glob(f"{sessions_dir}/session_*"): the directories, in listing order
RECURSIVE Orderings(_)
Orderings(S) ==
    IF S = {} THEN {<<>>}
    ELSE UNION { { <<e>> \o rest : rest \in Orderings(S \ {e}) } : e \in S }

SessionDirs == { s \in SessionIds : disk[s].exists }

\* Lines 1213-1222 and the loop up to its first await.  (Without any session
\* directory the early return of line 1218 and the empty loop give the same
\* response.)
SweepBegin(t, hours, tm, glob, order) ==
    /\ CanStart(t)
    /\ adds' = adds
    /\ glob \in Orderings(SessionDirs)
    /\ LET st == [IdleTask EXCEPT !.op = "sweep", !.pc = "sweep", !.ct = tm,
                                  !.hours = hours, !.todo = glob, !.glob = glob,
                                  !.before = { s \in SessionIds : sessions[s] # NoObj }]
           x == SweepLoop([w |-> World,
                           st |-> st, read |-> TRUE], tm, order)
       IN SweepCommit(t, x, tm)
    /\ UNCHANGED <<gshots, submitted>>

\* close_session, called at line 1240, resumes from context.close()
SweepContextDone(t) ==
    /\ task[t].pc = "close_context"
    /\ task[t].op = "sweep"
    /\ heap' = [heap EXCEPT ![task[t].obj] = ContextClosed(@)]
    /\ task' = [task EXCEPT ![t].pc = "close_browser"]
    /\ UNCHANGED <<sessions, disk, archive, gshots, now, adds, submitted>>

\* close_session resumes from browser.close(), deletes the entry and returns;
\* the sweep moves the directory and goes on with the loop.  The KeyError of
\* the del is caught at line 1252 and the session is skipped.
SweepBrowserDone(t, tm, order) ==
    /\ task[t].pc = "close_browser"
    /\ task[t].op = "sweep"
    /\ LET x0 == [w |-> World, st |-> [task[t] EXCEPT !.pc = "sweep"], read |-> FALSE]
           w1 == DeleteSession([World EXCEPT !.heap[task[t].obj] = BrowserClosed(@)],
                               task[t].sid)
       IN
       IF ~w1.raised
       THEN SweepCommit(t, Continue(ArchiveSession([x0 EXCEPT !.w = w1]), tm, order), tm)
       ELSE SweepCommit(t, OnException([x0 EXCEPT !.w = w1], tm, order), tm)
    /\ UNCHANGED <<gshots, adds, submitted>>

\* ------------------------------------------- AssetRecorder, called directly
\* add_screenshot / add_video / add_trace are synchronous: one call is one step.
Descriptions == { <<"my", "shot">> }

AddAsset(sid, kind, description, tm) ==
    /\ adds < MaxAdds
    /\ adds' = adds + 1
    /\ LET w1 == CASE kind = "screenshots" -> AddScreenshot(World, sid, "manual", description, tm)
                   [] kind = "videos" -> AddVideo(World, sid, description, tm)
                   [] kind = "traces" -> AddTrace(World, sid, description, tm)
       IN /\ heap' = w1.heap
          /\ disk' = w1.disk
          /\ now' = IF sessions[sid] = NoObj THEN now ELSE tm
    /\ UNCHANGED <<sessions, archive, gshots, task, submitted>>

\* ---------------------------------------------------- POST /api/execute
\* provided_keys (lines 423-427)
ProvidedKeys(command, term) ==
    (IF command.given THEN {"command"} ELSE {})
      \cup (IF term.given THEN {"term"} ELSE {})

\* The argv of subprocess.run: ["claude", "-p", command] or term.split()
Argv(command, term) ==
    IF command.given THEN <<"claude", "-p", command.text>> ELSE term.text

\* What the try block raises, "none" when it returns (lines 429-474).
\* subprocess.run of an empty argv raises before a process is started;
\* otherwise the process runs and exits, or is not found, or times out.
RunOutcomes == {"exit", "FileNotFoundError", "TimeoutExpired"}

Raised(command, term, outcome) ==
    IF Cardinality(ProvidedKeys(command, term)) # 1 THEN "HTTPException_400"
    ELSE IF Argv(command, term) = <<>> THEN "IndexError"
    ELSE IF outcome = "exit" THEN "none"
    ELSE outcome

\* The except clauses (lines 475-480): HTTPException is an Exception, so the
\* last clause takes the two format errors as well.
ExceptClauses(exc) ==
    CASE exc = "none" -> "success"
      [] exc = "TimeoutExpired" -> "http_408"
      [] exc = "FileNotFoundError" -> "http_404"
      [] OTHER -> "http_500"

\* subprocess.run blocks the event loop: the handler is one step.
ExecuteCommand(t, command, term, outcome) ==
    /\ CanStart(t)
    /\ LET exc == Raised(command, term, outcome)
           started == exc \in {"none", "TimeoutExpired"}
       IN task' = [task EXCEPT ![t] =
            Return([IdleTask EXCEPT !.op = "execute", !.command = command,
                                    !.term = term,
                                    !.ran = IF started THEN Argv(command, term)
                                            ELSE <<>>],
                   Response(ExceptClauses(exc)))]
    /\ UNCHANGED <<sessions, heap, disk, archive, gshots, now, adds, submitted>>

\* ------------------------------------------------------- specification
\* The server starts with an empty store and no session directory.  The
\* behaviours start after zero, one or two createSession requests that have
\* run to completion one after the other at clock reading 0 (CreateBegin,
\* CreateLaunched, CreateReady with outcome "ok"): Booted is the state they
\* leave.
BootOrders ==
    { <<>> }
    \cup { <<[sid |-> "a", rv |-> r]>> : r \in BOOLEAN }
    \cup { <<[sid |-> "a", rv |-> FALSE], [sid |-> "b", rv |-> TRUE]>> }

BootedHeap(boot) ==
    [ k \in 1..Len(boot) |->
        [SessionData(NewMetadata(boot[k].sid, boot[k].rv, 0), boot[k].rv, 0)
           EXCEPT !.registered = TRUE] ]

BootedDisk(boot) ==
    [ s \in SessionIds |->
        IF \E k \in 1..Len(boot) : boot[k].sid = s
        THEN LET k == CHOOSE k \in 1..Len(boot) : boot[k].sid = s
             IN [ContextDirectory(CreateSessionDirectory(NoDir), boot[k].rv, k)
                   EXCEPT !.meta = NewMetadata(s, boot[k].rv, 0)]
        ELSE NoDir ]

BootedSessions(boot) ==
    [ s \in SessionIds |->
        IF \E k \in 1..Len(boot) : boot[k].sid = s
        THEN CHOOSE k \in 1..Len(boot) : boot[k].sid = s
        ELSE NoObj ]

Init ==
    /\ \E boot \in BootOrders :
          /\ sessions = BootedSessions(boot)
          /\ heap = BootedHeap(boot)
          /\ disk = BootedDisk(boot)
    /\ archive = {}
    /\ gshots = {}
    /\ now = 0
    /\ adds = 0
    /\ submitted = 0
    /\ task = [t \in Tasks |-> IdleTask]

Outcomes == {"ok", "fail"}

CreateStep(t) ==
    \/ \E sid \in SessionIds, rv \in BOOLEAN : CreateBegin(t, sid, rv)
    \/ \E o \in Outcomes : CreateLaunched(t, o)
    \/ \E o \in Outcomes, tm \in TimeReadings : CreateReady(t, o, tm)

ScreenshotStep(t) ==
    \/ \E sid \in SessionIds, tm \in TimeReadings : TakeScreenshotBegin(t, sid, tm)
    \/ \E o \in Outcomes : TakeScreenshotDone(t, o)

SequenceStep(t) ==
    \/ \E sid \in SessionIds, acts \in ActionLists(MaxActions - submitted) :
           SequenceBegin(t, sid, acts)
    \/ SequenceResubmit(t)
    \/ \E o \in Outcomes : SequenceActionDone(t, o)
    \/ \E o \in Outcomes : SequenceAfterShotDone(t, o)
    \/ \E o \in Outcomes : SequenceCheckpointDone(t, o)
    \/ \E o \in Outcomes : SequenceErrorShotDone(t, o)

CloseStep(t) ==
    \/ \E sid \in SessionIds, tm \in TimeReadings, order \in ListingOrders :
           CloseBegin(t, sid, tm, order)
    \/ CloseContextDone(t)
    \/ CloseBrowserDone(t)

SweepStep(t) ==
    \/ \E hours \in {0, 1}, tm \in TimeReadings, glob \in Orderings(SessionDirs),
          order \in ListingOrders : SweepBegin(t, hours, tm, glob, order)
    \/ SweepContextDone(t)
    \/ \E order \in ListingOrders : SweepBrowserDone(t, now + 1, order)

RecorderStep ==
    \E sid \in SessionIds, kind \in AssetTypes, d \in Descriptions, tm \in TimeReadings :
        AddAsset(sid, kind, d, tm)

\* Every request of the session API.
Next ==
    \E t \in Pair :
        CreateStep(t) \/ ScreenshotStep(t) \/ SequenceStep(t) \/ CloseStep(t) \/ SweepStep(t)

Spec == Init /\ [][Next]_vars

\* The server is started on a recordings directory in which the metadata
\* file of one session directory is damaged (truncated by a process that died
\* while writing it); the other directories are as the creates left them.
Damages == SessionIds \cup {"none"}

DamagedDisk(boot, dir) ==
    [ s \in SessionIds |->
        IF s = dir THEN [exists |-> TRUE, meta |-> Malformed, files |-> BootedDisk(boot)[s].files]
        ELSE BootedDisk(boot)[s] ]

InitArchive ==
    /\ \E boot \in BootOrders, dir \in Damages :
          /\ sessions = BootedSessions(boot)
          /\ heap = BootedHeap(boot)
          /\ disk = DamagedDisk(boot, dir)
    /\ archive = {}
    /\ gshots = {}
    /\ now = 0
    /\ adds = 0
    /\ submitted = 0
    /\ task = [t \in Tasks |-> IdleTask]

\* Two requests, each a close or a sweep.
NextSweep == \E t \in Pair : CloseStep(t) \/ SweepStep(t)

SpecSweep == Init /\ [][NextSweep]_vars

\* The same two requests on a recordings directory with a damaged file.
SpecArchive == InitArchive /\ [][NextSweep]_vars

\* The sequence executor: two requests, each a sequence, a screenshot or a close.
NextSequence ==
    \E t \in Pair : SequenceStep(t) \/ ScreenshotStep(t) \/ CloseStep(t)

SpecSequence == Init /\ [][NextSequence]_vars

\* Every engine call eventually returns or fails: the await a request is
\* suspended at is resumed by the event loop.
EngineReturns(t) ==
    \/ \E o \in Outcomes :
          \/ SequenceActionDone(t, o)
          \/ SequenceAfterShotDone(t, o)
          \/ SequenceCheckpointDone(t, o)
          \/ SequenceErrorShotDone(t, o)
          \/ TakeScreenshotDone(t, o)
    \/ CloseContextDone(t)
    \/ CloseBrowserDone(t)

FairSequence == SpecSequence /\ \A t \in Pair : WF_vars(EngineReturns(t))

\* The session lifecycle: three requests, each a create, a screenshot, a close
\* or a sweep.
NextLifecycle ==
    \E t \in Tasks : CreateStep(t) \/ ScreenshotStep(t) \/ CloseStep(t) \/ SweepStep(t)

SpecLifecycle == Init /\ [][NextLifecycle]_vars

\* The asset recorder called directly, while one request creates or closes
\* a session.
NextRecorder ==
    \/ RecorderStep
    \/ CreateStep(TaskOrder[1]) \/ CloseStep(TaskOrder[1])

SpecRecorder == Init /\ [][NextRecorder]_vars

\* The write of a metadata file fails: open(metadata_path, 'w') raises when the
\* session directory is no longer there.  Here the directory of a session is
\* taken away from outside the server (a cleaner, an unmounted volume) while
\* two requests, each a screenshot or a close, are served.
DirectoryRemoved(sid) ==
    /\ disk[sid].exists
    /\ disk' = [disk EXCEPT ![sid] = NoDir]
    /\ UNCHANGED <<sessions, heap, archive, gshots, now, adds, submitted, task>>

NextFailure ==
    \/ \E sid \in SessionIds : DirectoryRemoved(sid)
    \/ \E t \in Pair : ScreenshotStep(t) \/ CloseStep(t)

SpecFailure == Init /\ [][NextFailure]_vars

\* The command endpoint alone: three requests.
NextExecute ==
    \E t \in Tasks, command \in OptionalTexts, term \in OptionalTexts,
       outcome \in RunOutcomes : ExecuteCommand(t, command, term, outcome)

SpecExecute == Init /\ [][NextExecute]_vars

\* The process exits and is started again: session_manager = SessionManager()
\* has an empty store, the engines of the old process are gone, the
\* recordings directory is as it was.  (Taken between requests, and only when
\* the store holds a session.)
Restart ==
    /\ \A t \in Tasks : task[t].pc \in {"idle", "done"}
    /\ \E s \in SessionIds : sessions[s] # NoObj
    /\ sessions' = [s \in SessionIds |-> NoObj]
    /\ heap' = [o \in 1..Len(heap) |-> [heap[o] EXCEPT !.eng = "released"]]
    /\ UNCHANGED <<disk, archive, gshots, now, adds, submitted, task>>

\* Creates and screenshots of three requests, with restarts of the process.
NextRestart ==
    \/ Restart
    \/ \E t \in Tasks : CreateStep(t) \/ ScreenshotStep(t)

SpecRestart == Init /\ [][NextRestart]_vars

\* ================================================================ claims
\* A runSequence request that found its session in the store and has returned.
SequenceReturned(t) ==
    task[t].op = "sequence" /\ task[t].pc = "done" /\ task[t].obj # NoObj

HasCheckpoint(acts) == \E j \in 1..Len(acts) : acts[j].action = CheckpointKind

\* 0-based index of the first checkpoint of a list that has one
FirstCheckpoint(acts) ==
    CHOOSE k \in 0..(Len(acts) - 1) :
        /\ acts[k + 1].action = CheckpointKind
        /\ \A j \in 0..(k - 1) : acts[j + 1].action # CheckpointKind

Logged(st, e) == \E n \in 1..Len(st.log) : st.log[n] = e

\* the action of step j was applied to the page and the engine call succeeded
ActionSucceeded(st, j) ==
    st.acts[j + 1].action \in PageKinds /\ Logged(st, <<j, "action", "ok">>)

\* every capture the call makes up to and including the checkpoint of step k
CapturesSucceeded(st, k) ==
    /\ \A j \in 0..(k - 1) :
         st.acts[j + 1].screenshot_after => Logged(st, <<j, "after", "ok">>)
    /\ Logged(st, <<k, "checkpoint", "ok">>)

Suffix(acts, k) == [j \in 1..(Len(acts) - (k + 1)) |-> acts[k + 1 + j]]

PausedAt(st, k) ==
    /\ st.ret.status = "paused_for_analysis"
    /\ Len(st.ret.completed) = k + 1
    /\ \A j \in 1..k : st.ret.completed[j].status = "success"
    /\ st.ret.completed[k + 1].status = "waiting_for_analysis"
    /\ st.ret.next_actions = Suffix(st.acts, k)

\* C1, as stated: a list whose first checkpoint is at index k and whose
\* actions 0..k-1 all succeed returns paused, with k success results, one
\* waiting_for_analysis result and the suffix after k as continuation.
C1_PausedWheneverActionsSucceed ==
    \A t \in Tasks :
        (/\ SequenceReturned(t)
         /\ HasCheckpoint(task[t].acts)
         /\ \A j \in 0..(FirstCheckpoint(task[t].acts) - 1) : ActionSucceeded(task[t], j))
        => PausedAt(task[t], FirstCheckpoint(task[t].acts))

\* C1, amended: the same, when moreover every screenshot capture of the call
\* up to and including the checkpoint's own succeeds.
C1_PausedAtFirstCheckpoint ==
    \A t \in Tasks :
        (/\ SequenceReturned(t)
         /\ HasCheckpoint(task[t].acts)
         /\ \A j \in 0..(FirstCheckpoint(task[t].acts) - 1) : ActionSucceeded(task[t], j)
         /\ CapturesSucceeded(task[t], FirstCheckpoint(task[t].acts)))
        => PausedAt(task[t], FirstCheckpoint(task[t].acts))

C1_Witness ==
    \E t \in Tasks :
        /\ SequenceReturned(t)
        /\ task[t].ret.status = "paused_for_analysis"
        /\ Len(task[t].acts) = 3
        /\ FirstCheckpoint(task[t].acts) = 1
        /\ task[t].acts[1].screenshot_after
        /\ Len(task[t].ret.next_actions) = 1

\* The results and the applied actions of a run and of the calls that
\* resubmitted its continuations, in order.
ChainResults(st) == st.allres \o st.ret.completed
ChainApplied(st) == st.allapplied \o AppliedActions(st)
IsCheckpoint(a) == a.action = CheckpointKind
IsNotCheckpoint(a) == a.action # CheckpointKind
ExpectedStatus(a) == IF IsCheckpoint(a) THEN "waiting_for_analysis" ELSE "success"

\* C2: a list with checkpoints none of whose actions fails (an action of
\* unknown kind counts as failing: its result has status error), run and
\* resumed by resubmitting each continuation: at every pause the results so
\* far and the continuation add up to the original list, and at completion
\* the page got exactly the non-checkpoint actions in order and there is one
\* result per action, success for an action and waiting_for_analysis for a
\* checkpoint.
C2_ResumeByResubmission ==
    \A t \in Tasks :
        (/\ SequenceReturned(t)
         /\ HasCheckpoint(task[t].orig)
         /\ \A j \in 1..Len(task[t].orig) :
               task[t].orig[j].action \in PageKinds \cup {CheckpointKind})
        =>
        /\ task[t].ret.status = "paused_for_analysis" =>
             /\ Len(ChainResults(task[t])) + Len(task[t].ret.next_actions) = Len(task[t].orig)
             /\ task[t].ret.next_actions =
                  Suffix(task[t].orig, Len(ChainResults(task[t])) - 1)
        /\ task[t].ret.status = "completed" =>
             /\ ChainApplied(task[t]) = SelectSeq(task[t].orig, IsNotCheckpoint)
             /\ Len(ChainResults(task[t])) = Len(task[t].orig)
             /\ \A j \in 1..Len(task[t].orig) :
                  /\ ChainResults(task[t])[j].status = ExpectedStatus(task[t].orig[j])
                  /\ ChainResults(task[t])[j].action = task[t].orig[j].action

C2_Witness ==
    \E t \in Tasks :
        /\ SequenceReturned(t)
        /\ task[t].ret.status = "completed"
        /\ Len(task[t].orig) = 3
        /\ IsCheckpoint(task[t].orig[2])
        /\ task[t].allres # <<>>
        /\ Len(ChainApplied(task[t])) = 2

\* The step that fails first: the engine call of the action at index j failed
\* after the actions 0..j-1 had succeeded.
FailedAt(st, j) ==
    /\ j < Len(st.acts)
    /\ Logged(st, <<j, "action", "fail">>)
    /\ \A n \in 0..(j - 1) : ActionSucceeded(st, n)

\* C3, as stated: when the action at index j fails after 0..j-1 succeeded, no
\* action of a greater index is applied to the page and the call returns
\* status error with exactly the j success results before the failure and
\* the path of the error screenshot.
C3_ErrorResultAtFirstFailure ==
    \A t \in Tasks : \A j \in 0..MaxActions :
        (SequenceReturned(t) /\ FailedAt(task[t], j))
        =>
        /\ \A n \in 1..Len(task[t].log) :
              task[t].log[n][2] = "action" => task[t].log[n][1] <= j
        /\ task[t].ret.status = "error"
        /\ Len(task[t].ret.completed) = j
        /\ \A n \in 1..j : task[t].ret.completed[n].status = "success"
        /\ task[t].ret.shot = ErrorPath(task[t].sid)

\* C4, as stated: every runSequence call that found its session in the
\* active store returns a result of status completed, paused or error; no
\* failure reaches the caller as a fault.
C4_SequenceNeverFaults ==
    \A t \in Tasks :
        SequenceReturned(t) =>
            task[t].ret.status \in {"completed", "paused_for_analysis", "error"}

\* A request that is suspended in an engine call on a session's page.
InFlight(t) ==
    task[t].pc \in {"seq_action", "seq_after", "seq_checkpoint", "seq_error", "take_shot"}

\* C5, as stated: at most one runSequence or screenshot call is in flight
\* against the page of one session at any time.
C5_OneExecutionPerPage ==
    \A t1, t2 \in Tasks :
        (t1 # t2 /\ InFlight(t1) /\ InFlight(t2)) => task[t1].obj # task[t2].obj

\* The scenario of C10: [navigate, checkpoint, click].
Scenario ==
    << [action |-> "goto", screenshot_after |-> FALSE],
       [action |-> CheckpointKind, screenshot_after |-> FALSE],
       [action |-> "click", screenshot_after |-> TRUE] >>

\* C10, as stated: the scenario list, the navigate succeeding, returns paused
\* with exactly one completed record, the navigate's, the checkpoint
\* screenshot named ..._analysis_1.png and the continuation [click].
C10_ScenarioOneRecord ==
    \A t \in Tasks :
        (/\ SequenceReturned(t)
         /\ task[t].acts = Scenario
         /\ Logged(task[t], <<0, "action", "ok">>))
        =>
        /\ task[t].ret.status = "paused_for_analysis"
        /\ Len(task[t].ret.completed) = 1
        /\ task[t].ret.completed[1].action = "goto"
        /\ task[t].ret.shot = <<"screenshots", task[t].sid, "analysis", 1>>
        /\ task[t].ret.next_actions = <<Scenario[3]>>

\* C10, amended: the scenario list, the navigate and the checkpoint capture
\* succeeding, returns paused with exactly two records, the navigate's
\* success and the checkpoint's waiting_for_analysis, the checkpoint
\* screenshot named ..._analysis_1.png, which is on disk, and the
\* continuation [click].
C10_ScenarioTwoRecords ==
    \A t \in Tasks :
        (/\ SequenceReturned(t)
         /\ task[t].acts = Scenario
         /\ Logged(task[t], <<0, "action", "ok">>)
         /\ Logged(task[t], <<1, "checkpoint", "ok">>))
        =>
        /\ task[t].ret.status = "paused_for_analysis"
        /\ Len(task[t].ret.completed) = 2
        /\ task[t].ret.completed[1].action = "goto"
        /\ task[t].ret.completed[1].status = "success"
        /\ task[t].ret.completed[2].action = CheckpointKind
        /\ task[t].ret.completed[2].status = "waiting_for_analysis"
        /\ task[t].ret.shot = <<"screenshots", task[t].sid, "analysis", 1>>
        /\ task[t].ret.shot \in gshots
        /\ task[t].ret.next_actions = <<Scenario[3]>>

C10_Witness ==
    \E t \in Tasks :
        /\ SequenceReturned(t)
        /\ task[t].acts = Scenario
        /\ task[t].allres = <<>>
        /\ heap[task[t].obj].metadata.total_actions = 0
        /\ task[t].ret.status = "paused_for_analysis"

\* Every metadata document there is: the ones of the session_data dicts in
\* memory, the metadata.json files of the session directories, and the ones
\* of the archived directories.
AllMetadata ==
    { heap[o].metadata : o \in 1..Len(heap) }
      \cup { disk[s].meta : s \in SessionIds }
      \cup { a.meta : a \in archive }

\* the marker that starts the file name of the record of sequence number n
Marker(n) == <<n \div 100, (n \div 10) % 10, n % 10>>

\* C6: in every metadata document and for each asset kind, the records of
\* the kind carry the sequence numbers 1..n in list order, n the length of
\* the list, and the file name of the i-th record starts with the
\* three-digit marker of i.
C6_GaplessSequenceNumbers ==
    \A m \in AllMetadata : m # NoMeta =>
        \A kind \in AssetTypes : \A i \in 1..Len(m[kind]) :
            /\ m[kind][i].sequence = i
            /\ m[kind][i].filename[1] = Marker(i)

\* three screenshots recorded for a session, with a trace recorded between
\* them, all of it persisted
C6_Witness ==
    \E s \in SessionIds :
        /\ sessions[s] # NoObj
        /\ disk[s].meta = heap[sessions[s]].metadata
        /\ Len(disk[s].meta.screenshots) = 3
        /\ disk[s].meta.screenshots[3].filename[1] = <<0, 0, 3>>
        /\ Len(disk[s].meta.traces) = 1

\* C7, as stated: a closeSession call for an id that is not in the store
\* returns NotFound, and no closeSession call ends in a fault.
C7_CloseNeverFaults ==
    \A t \in Tasks :
        (task[t].op = "close" /\ task[t].pc = "done") =>
            /\ task[t].ret.status \in {"success", "http_404"}
            /\ task[t].obj = NoObj => task[t].ret.status = "http_404"

\* C8, as stated: when sweepStale(0) has returned, every session that was in
\* the store when the sweep started is archived with its metadata file, and
\* the store is empty.
C8_SweepZeroArchivesAll ==
    \A t \in Tasks :
        (task[t].op = "sweep" /\ task[t].pc = "done" /\ task[t].hours = 0) =>
            /\ \A s \in task[t].before :
                 \E a \in archive :
                    a.sid = s /\ a.meta # NoMeta /\ a.meta.session_id = s
            /\ \A s \in SessionIds : sessions[s] = NoObj

\* C9: every metadata document of a session created with recordVideo=false,
\* in memory, in its directory or archived, has an empty videos list, and so
\* has the session's record in memory; whatever closes have been tried.
C9_NoVideoWithoutRecording ==
    /\ \A m \in AllMetadata :
         (m # NoMeta /\ ~m.record_video) => m.videos = <<>>
    /\ \A o \in 1..Len(heap) :
         (heap[o].metadata # NoMeta /\ ~heap[o].metadata.record_video)
            => heap[o].videos = <<>>

\* a session created without recording on an id whose earlier session left a
\* video behind, closed and archived
C9_Witness ==
    \E a \in archive, s \in SessionIds :
        /\ a.sid = s
        /\ ~a.meta.record_video
        /\ a.meta.status = "completed"
        /\ a.files # {}

\* The file paths of a list of metadata records.
Filepaths(entries) == [i \in 1..Len(entries) |-> entries[i].filepath]

\* The metadata file of the session directory d mirrors the session_data h:
\* it is the metadata h carries (status, last_activity and the records), and
\* its records are the captures h lists, kind by kind.
Mirrors(d, h) ==
    /\ d.meta # NoMeta
    /\ d.meta = h.metadata
    /\ Filepaths(d.meta.screenshots) = h.screenshots
    /\ Filepaths(d.meta.videos) = h.videos
    /\ Filepaths(d.meta.traces) = h.traces

\* the responses of a call that returned successfully
SuccessStatuses == {"success", "completed", "paused_for_analysis"}

\* C11, as stated: in the state a createSession, screenshot, runSequence or
\* closeSession call returns successfully to, the metadata file of its
\* session mirrors the session's state in memory.
C11_DurableMirror ==
    [][ \A t \in Tasks :
          (/\ task[t].pc # "done"
           /\ task'[t].pc = "done"
           /\ task'[t].op \in {"create", "screenshot", "sequence", "close"}
           /\ task'[t].ret.status \in SuccessStatuses)
          => Mirrors(disk'[task'[t].sid], heap'[task'[t].obj]) ]_vars

\* the records a list of metadata records starts with
IsPrefix(old, new) ==
    /\ Len(old) <= Len(new)
    /\ \A i \in 1..Len(old) : new[i] = old[i]

\* C12, as stated: once the store has lost a session whose directory and
\* metadata file are kept, the records persisted in that directory stay, and
\* a record added to it later is numbered after them: no step takes a
\* persisted record away or puts a record of the same number in its place.
C12_NumbersSurviveRestart ==
    [][ \A s \in SessionIds :
          (/\ sessions[s] = NoObj
           /\ disk[s].meta # NoMeta
           /\ disk'[s].exists)
          => /\ disk'[s].meta # NoMeta
             /\ \A kind \in AssetTypes :
                   IsPrefix(disk[s].meta[kind], disk'[s].meta[kind]) ]_vars

\* A runSequence call on a session of the store has returned status error.
ReturnedError(t) == SequenceReturned(t) /\ task[t].ret.status = "error"

\* The session a call ran on is in the store under the call's id, with its
\* engine, context and page open and with status active.
StillActive(t) ==
    /\ sessions[task[t].sid] = task[t].obj
    /\ heap[task[t].obj].eng = "ready"
    /\ heap[task[t].obj].metadata.status = "active"
    /\ disk[task[t].sid].meta.status = "active"

\* a close of the session of call t has started
CloseStarted(t) ==
    \E c \in Tasks : task[c].op = "close" /\ task[c].obj = task[t].obj

\* request t2 arrived after request t1
ArrivedAfter(t2, t1) ==
    \E j, k \in 1..Len(TaskOrder) : j < k /\ TaskOrder[j] = t1 /\ TaskOrder[k] = t2

\* a later runSequence on the same id is accepted and runs on the same page
LaterRunsAccepted(t) ==
    \A t2 \in Tasks :
        (/\ ArrivedAfter(t2, t)
         /\ task[t2].op = "sequence"
         /\ task[t2].sid = task[t].sid)
        => /\ task[t2].obj = task[t].obj
           /\ task[t2].ret.status # "http_404"

\* C13, as stated: after a runSequence call has returned status error, the
\* session is in the store with the same engine, context and page and with
\* status active, and a later runSequence on the id runs on that page.
C13_ErrorLeavesSessionActive ==
    \A t \in Tasks : ReturnedError(t) => (StillActive(t) /\ LaterRunsAccepted(t))

\* C13, amended: the same, provided no close of the session has started.
C13_ErrorLeavesSessionUnlessClosed ==
    \A t \in Tasks :
        (ReturnedError(t) /\ ~CloseStarted(t))
        => (StillActive(t) /\ LaterRunsAccepted(t))

\* a call has returned error after its first action failed, and a later call
\* on the same id has applied an action to the same page
C13_Witness ==
    \E t, t2 \in Tasks :
        /\ ReturnedError(t)
        /\ Logged(task[t], <<0, "action", "fail">>)
        /\ ~CloseStarted(t)
        /\ ArrivedAfter(t2, t)
        /\ SequenceReturned(t2)
        /\ task[t2].obj = task[t].obj
        /\ Logged(task[t2], <<0, "action", "ok">>)
        /\ task[t2].ret.status = "completed"

\* C14, as stated: in the state a closeSession call returns successfully to,
\* the id is not in the store, the context and the engine of the session are
\* released, the session directory exists, and its metadata file has status
\* completed and holds every record the session had.
C14_ClosedSessionIsKept ==
    [][ \A t \in Tasks :
          (/\ task[t].pc # "done"
           /\ task'[t].pc = "done"
           /\ task'[t].op = "close"
           /\ task'[t].ret.status = "success")
          => /\ sessions'[task'[t].sid] = NoObj
             /\ heap'[task'[t].obj].eng = "released"
             /\ disk'[task'[t].sid].exists
             /\ disk'[task'[t].sid].meta # NoMeta
             /\ disk'[task'[t].sid].meta.status = "completed"
             /\ disk'[task'[t].sid].meta = heap'[task'[t].obj].metadata ]_vars

\* A sweep with max_age_hours = h has returned.
SweepReturned(t, h) ==
    task[t].op = "sweep" /\ task[t].pc = "done" /\ task[t].hours = h

\* the session ids a sweep has put in cleaned_sessions
ReportedBy(st) == { st.cleaned[i].session_id : i \in 1..Len(st.cleaned) }
Reported(t) == ReportedBy(task[t])

\* C15: a sweep always returns its report, and no directory stops the pass:
\* after sweep(0), every directory the sweep listed is archived and reported
\* by a sweep, or was skipped: its metadata file is damaged or missing, or
\* its last activity is not before the sweep's clock reading (a close of it was
\* started meanwhile, by this sweep or by another call).
C15_SweepIsolatesFailures ==
    \A t \in Tasks :
        /\ (task[t].op = "sweep" /\ task[t].pc = "done") => task[t].ret.status = "success"
        /\ SweepReturned(t, 0) =>
             \A n \in 1..Len(task[t].glob) :
                LET s == task[t].glob[n] IN
                \/ /\ \E a \in archive : a.sid = s /\ a.meta # Malformed
                   /\ \E t2 \in Tasks : task[t2].op = "sweep" /\ s \in Reported(t2)
                \/ disk[s].exists /\ disk[s].meta \in {Malformed, NoMeta}
                \/ /\ disk[s].exists
                   /\ disk[s].meta \notin {Malformed, NoMeta}
                   /\ FromIsoFormat(disk[s].meta.last_activity) >= task[t].ct

\* a sweep has met the damaged directory first and has archived and reported
\* the session of the next one
C15_Witness ==
    \E t \in Tasks :
        /\ SweepReturned(t, 0)
        /\ Len(task[t].glob) = 2
        /\ disk[task[t].glob[1]].meta = Malformed
        /\ task[t].glob[2] \in Reported(t)
        /\ task[t].ret.cleaned = task[t].cleaned
        /\ \E a \in archive : a.sid = task[t].glob[2] /\ a.meta.status = "completed"

\* The sweep st does not archive the directory d: it has no readable
\* metadata, or its last activity is not more than max_age_hours before the
\* clock reading of the sweep.
NotExceeding(st, d) ==
    d.meta \notin {NoMeta, Malformed} =>
        st.ct - FromIsoFormat(d.meta.last_activity)
            <= st.hours * SecondsPerHour * TicksPerSecond

\* the sweep st is inside close_session for session id s
IsClosing(st, s) == st.pc \in {"close_context", "close_browser"} /\ st.sid = s

\* C16, as stated: every step of a sweep leaves the directory, the metadata
\* and the store entry of a session that does not exceed maxAge as they are;
\* a directory leaves the session root only when the sweep reports it; and
\* when the sweep returns, every id it reports is absent from the store, has
\* no directory under the session root and has one in the archive.
C16_SweepArchivesExactlyTheOld ==
    [][ \A t \in Tasks :
          (task'[t] # task[t] /\ task'[t].op = "sweep")
          =>
          /\ \A s \in SessionIds :
               (NotExceeding(task'[t], disk[s]) /\ ~IsClosing(task[t], s))
               => /\ disk'[s] = disk[s]
                  /\ sessions'[s] = sessions[s]
                  /\ sessions[s] # NoObj => heap'[sessions[s]] = heap[sessions[s]]
          /\ \A s \in SessionIds :
               (disk[s].exists /\ ~disk'[s].exists) => s \in ReportedBy(task'[t])
          /\ task'[t].pc = "done" =>
               \A s \in ReportedBy(task'[t]) :
                  /\ sessions'[s] = NoObj
                  /\ ~disk'[s].exists
                  /\ \E a \in archive' : a.sid = s ]_vars

\* ------------------------------------------------------------------ C17
\* C17: archival moves and never overwrites.  A step that takes a session
\* directory away from the session root puts a new directory of the archive
\* root in its place, named session_<id>_<epoch>, holding the metadata and
\* every file of the directory; the directories already archived stay as they
\* are, and the new one neither takes the name of one of them nor is placed
\* inside one of them.
ArchivedFrom(a, s, d) ==
    /\ a.sid = s
    /\ a.name[1] = s
    /\ a.meta = d.meta
    /\ a.files = d.files

C17_ArchiveMovesNeverMerges ==
    [][ /\ archive \subseteq archive'
        /\ \A s \in SessionIds :
             (disk[s].exists /\ ~disk'[s].exists)
             => \E a \in archive' \ archive : ArchivedFrom(a, s, disk[s])
        /\ \A a \in archive' \ archive :
             /\ ~a.nested
             /\ \A b \in archive : b.name # a.name ]_vars

\* ------------------------------------------------------------------ C18
\* C18: session ids are unique.  The id a createSession draws is the id of no
\* session of the store and of no directory of the session root, and no step
\* of a createSession replaces an entry of the store or writes over the
\* metadata of a session that has one.
C18_SessionIdsAreUnique ==
    [][ \A t \in Tasks :
          (task'[t] # task[t] /\ task'[t].op = "create")
          =>
          /\ task[t].op # "create" =>
               /\ sessions[task'[t].sid] = NoObj
               /\ ~disk[task'[t].sid].exists
          /\ \A s \in SessionIds :
               /\ sessions[s] # NoObj => sessions'[s] = sessions[s]
               /\ disk[s].meta # NoMeta => disk'[s].meta = disk[s].meta ]_vars

\* ------------------------------------------------------------------ C19
\* C19: createSession makes the directory, acquires the engine, persists the
\* metadata and registers the session, in that order.  Its first step only
\* makes the directory (empty when the id had none); the launch touches
\* neither the session root nor the store, and a launch that fails ends the
\* call with an error, no engine and no second attempt; the last step writes
\* the metadata and registers the session together, and only when the call
\* succeeds.
EmptyDirectory == [exists |-> TRUE, meta |-> NoMeta, files |-> {}]

LaunchFailed(st) ==
    /\ st.op = "create"
    /\ st.pc = "done"
    /\ st.obj = NoObj

C19_CreateInOrder ==
    [][ \A t \in Tasks :
          (task'[t] # task[t] /\ task'[t].op = "create")
          =>
          LET sid == task'[t].sid
              o == task[t].obj
          IN
          /\ task[t].pc = "idle" =>
               /\ disk'[sid].exists
               /\ ~disk[sid].exists => disk'[sid] = EmptyDirectory
               /\ disk'[sid].meta = disk[sid].meta
               /\ task'[t].pc = "create_launch"
               /\ sessions' = sessions
               /\ heap' = heap
          /\ task[t].pc = "create_launch" =>
               /\ disk' = disk
               /\ sessions' = sessions
               /\ task'[t].pc = "done" =>
                    /\ LaunchFailed(task'[t])
                    /\ task'[t].ret.status = "http_500"
                    /\ heap' = heap
          /\ task[t].pc = "create_context" =>
               /\ task'[t].pc = "done"
               /\ IF task'[t].ret.status = "success"
                  THEN /\ sessions'[sid] = o
                       /\ disk'[sid].meta = heap'[o].metadata
                       /\ disk'[sid].meta.session_id = sid
                       /\ disk'[sid].meta.status = "active"
                  ELSE /\ sessions' = sessions
                       /\ disk'[sid].meta = disk[sid].meta ]_vars

\* A createSession whose launch failed has returned; its id has the empty
\* directory, no metadata file and no entry in the store.
C19_Witness ==
    \E t \in Tasks :
        /\ LaunchFailed(task[t])
        /\ task[t].ret.status = "http_500"
        /\ disk[task[t].sid] = EmptyDirectory
        /\ sessions[task[t].sid] = NoObj

\* ------------------------------------------------------------------ C20
\* C20: closing is a hard cancellation.  While a runSequence is suspended at
\* an engine call on a session, every step of a closeSession of that session
\* is taken with the sequence still suspended where it was: the first marks
\* the session completed, the second closes the context, the third releases
\* the engine, removes the session from the store and returns.
Suspended(r, o) ==
    /\ task[r].op = "sequence"
    /\ task[r].obj = o
    /\ task[r].pc \in {"seq_action", "seq_after", "seq_checkpoint", "seq_error"}

C20_CloseIsHardCancellation ==
    [][ \A c \in Tasks :
          (/\ task'[c] # task[c]
           /\ task'[c].op = "close"
           /\ task'[c].obj # NoObj
           /\ \E r \in Tasks : Suspended(r, task'[c].obj))
          =>
          LET o == task'[c].obj
              sid == task'[c].sid
          IN
          /\ \A r \in Tasks : Suspended(r, o) => task'[r] = task[r]
          /\ task[c].pc = "idle" =>
               /\ task'[c].pc = "close_context"
               /\ heap'[o].metadata.status = "completed"
          /\ task[c].pc = "close_context" =>
               /\ task'[c].pc = "close_browser"
               /\ heap'[o].eng # "ready"
          /\ task[c].pc = "close_browser" =>
               /\ task'[c].pc = "done"
               /\ heap'[o].eng = "released"
               /\ sessions'[sid] # o ]_vars

\* A closeSession that arrived after a runSequence has returned while that
\* sequence is still suspended at its first engine call.
C20_Witness ==
    \E c, r \in Tasks :
        /\ ArrivedAfter(c, r)
        /\ task[c].op = "close"
        /\ task[c].pc = "done"
        /\ task[c].ret.status = "success"
        /\ Suspended(r, task[c].obj)
        /\ task[r].pc = "seq_action"
        /\ task[r].i = 0
        /\ heap[task[c].obj].eng = "released"
        /\ sessions[task[c].sid] = NoObj

\* ------------------------------------------------------------------ C21
\* C21: sessions are independent.  A step of a screenshot (an AssetRecorder
\* add), a runSequence or a closeSession addressed to one session leaves the
\* store entry, the in-memory state, the session directory with its metadata
\* and the captured files of every other session as they were.
CapturesOf(shots, s) == { p \in shots : p[2] = s }

C21_SessionsAreIndependent ==
    [][ \A t \in Tasks :
          (/\ task'[t] # task[t]
           /\ task'[t].op \in {"screenshot", "sequence", "close"})
          =>
          \A s \in SessionIds \ {task'[t].sid} :
             /\ sessions'[s] = sessions[s]
             /\ sessions[s] # NoObj => heap'[sessions[s]] = heap[sessions[s]]
             /\ disk'[s] = disk[s]
             /\ CapturesOf(gshots', s) = CapturesOf(gshots, s) ]_vars

\* Two sessions are active and have screenshots on record, and a closeSession
\* of one of them has returned.
C21_Witness ==
    \E t \in Tasks :
        /\ task[t].op = "close"
        /\ task[t].pc = "done"
        /\ task[t].ret.status = "success"
        /\ \E s \in SessionIds \ {task[t].sid} :
              /\ sessions[s] # NoObj
              /\ heap[sessions[s]].metadata.screenshots # <<>>

\* ------------------------------------------------------------------ C22
\* C22: a runSequence ends completed only when every action of its list was
\* processed, none of them a checkpoint, and no step result has status error.
C22_CompletedOnlyWithoutError ==
    \A t \in Tasks :
        (SequenceReturned(t) /\ task[t].ret.status = "completed")
        =>
        /\ Len(task[t].ret.completed) = Len(task[t].acts)
        /\ ~HasCheckpoint(task[t].acts)
        /\ \A k \in 1..Len(task[t].ret.completed) :
              task[t].ret.completed[k].status # "error"

\* ------------------------------------------------------------------ C23
\* C23: the metadata file of every archived directory records the status
\* archived.
C23_ArchivedStatusRecorded ==
    \A a \in archive : a.meta.status = "archived"

\* ------------------------------------------------------------------ C24
\* C24: a step of a runSequence that takes a capture adds one record to the
\* screenshots of the session's metadata, numbered after the records it had,
\* and the path put in the result is the path of that record.
C24_SequenceCapturesAreRecorded ==
    [][ \A t \in Tasks :
          (/\ task[t].op = "sequence"
           /\ Len(task'[t].shots) = Len(task[t].shots) + 1)
          =>
          LET o == task[t].obj
              old == heap[o].metadata.screenshots
              new == heap'[o].metadata.screenshots
          IN /\ Len(new) = Len(old) + 1
             /\ new[Len(new)].sequence = Len(old) + 1
             /\ new[Len(new)].filepath = task'[t].shots[Len(task'[t].shots)] ]_vars

\* ------------------------------------------------------------------ C25
\* C25: no engine leaks.  When no request is in progress, every engine that
\* was launched is owned by exactly one session of the store or has been
\* released.
Quiescent == \A t \in Tasks : task[t].pc \in {"idle", "done"}

Owners(o) == { s \in SessionIds : sessions[s] = o }

C25_NoEngineLeak ==
    Quiescent =>
        \A o \in 1..Len(heap) :
            heap[o].eng = "released" \/ Cardinality(Owners(o)) = 1

\* ------------------------------------------------------------------ C26
\* C26: an engine handle is not used after release.  No step of a runSequence
\* or a screenshot issues an engine call on a page whose context or engine a
\* close has started to release or has released.
Releasing(o) ==
    \/ heap[o].eng # "ready"
    \/ \E c \in Tasks :
          /\ task[c].pc \in {"close_context", "close_browser"}
          /\ task[c].obj = o

C26_NoUseAfterRelease ==
    [][ \A t \in Tasks :
          (/\ task'[t] # task[t]
           /\ task'[t].pc \in {"seq_action", "seq_after", "seq_checkpoint",
                               "seq_error", "take_shot"})
          => ~Releasing(task'[t].obj) ]_vars

\* ------------------------------------------------------------------ C27
\* C27: the engine calls that apply the actions of one runSequence call are
\* issued one after the other in list order, none skipped, and none for an
\* action located after the first checkpoint of the list.
IsActionCall(e) == e[2] = "action"

\* 0-based indices of the actions of a list that are applied to the page
PageIndices(acts) ==
    SelectSeq([k \in 1..Len(acts) |-> k - 1],
              LAMBDA j : acts[j + 1].action \in PageKinds)

\* 0-based indices of the actions a call has applied or is applying
Issued(st) ==
    LET calls == SelectSeq(st.log, IsActionCall)
    IN [n \in 1..Len(calls) |-> calls[n][1]]
       \o (IF st.pc = "seq_action" THEN <<st.i>> ELSE <<>>)

C27_InOrderUpToCheckpoint ==
    \A t \in Tasks :
        (task[t].op = "sequence" /\ task[t].obj # NoObj)
        =>
        /\ IsPrefix(Issued(task[t]), PageIndices(task[t].acts))
        /\ HasCheckpoint(task[t].acts) =>
              \A n \in 1..Len(Issued(task[t])) :
                  Issued(task[t])[n] < FirstCheckpoint(task[t].acts)

\* A call on [goto, checkpoint, goto] has returned paused after applying the
\* first action only.
C27_Witness ==
    \E t \in Tasks :
        /\ SequenceReturned(t)
        /\ Len(task[t].acts) = 3
        /\ task[t].acts[1].action \in PageKinds
        /\ task[t].acts[2].action = CheckpointKind
        /\ task[t].acts[3].action \in PageKinds
        /\ task[t].ret.status = "paused_for_analysis"
        /\ Issued(task[t]) = <<0>>

\* ------------------------------------------------------------------ C28
\* C28: a step that appends a record of some kind to the metadata of a
\* session appends exactly one, increases the action counter by one and sets
\* the last-activity time, in memory and in the metadata file.
C28_EveryAddCounts ==
    [][ \A o \in 1..Len(heap) : \A kind \in AssetTypes :
          (/\ heap[o].metadata # NoMeta
           /\ Len(heap'[o].metadata[kind]) > Len(heap[o].metadata[kind]))
          =>
          /\ Len(heap'[o].metadata[kind]) = Len(heap[o].metadata[kind]) + 1
          /\ heap'[o].metadata.total_actions = heap[o].metadata.total_actions + 1
          /\ heap'[o].metadata.last_activity = IsoFormat(now')
          /\ heap'[o].last_activity = now'
          /\ disk'[heap[o].metadata.session_id].meta = heap'[o].metadata ]_vars

\* ------------------------------------------------------------------ C29
\* C29: a runSequence that applied an action to the page has advanced the
\* action counter of its session when it returns.  The counters start at 0
\* and are to never decrease, so the session of a call that has returned
\* after applying an action has a positive counter, in memory and in the
\* metadata file.
C29_SequenceAdvancesCounter ==
    \A t \in Tasks :
        (SequenceReturned(t) /\ task[t].applied # <<>>)
        =>
        /\ heap[task[t].obj].action_count + heap[task[t].obj].metadata.total_actions > 0
        /\ disk[task[t].sid].meta.total_actions > 0

\* ------------------------------------------------------------------ C30
\* C30: additions are serialized.  An AssetRecorder add keeps every record
\* that was there, in memory and in the metadata file, the records of one
\* kind have pairwise different sequence numbers and file names after it,
\* and it changes the state and the directory of one session at most.
DistinctRecords(recs) ==
    \A i, j \in 1..Len(recs) :
        i # j => /\ recs[i].sequence # recs[j].sequence
                 /\ recs[i].filename # recs[j].filename

KeepsRecords(old, new) ==
    old # NoMeta =>
        \A kind \in AssetTypes :
            /\ IsPrefix(old[kind], new[kind])
            /\ DistinctRecords(new[kind])

C30_AdditionsAreSerialized ==
    [][ adds' # adds =>
          /\ \A o \in 1..Len(heap) :
                /\ KeepsRecords(heap[o].metadata, heap'[o].metadata)
                /\ \A kind \in AssetTypes : IsPrefix(heap[o][kind], heap'[o][kind])
          /\ \A s \in SessionIds : KeepsRecords(disk[s].meta, disk'[s].meta)
          /\ \A s1, s2 \in SessionIds :
                s1 # s2 => disk'[s1] = disk[s1] \/ disk'[s2] = disk[s2]
          /\ \A o1, o2 \in 1..Len(heap) :
                o1 # o2 => heap'[o1] = heap[o1] \/ heap'[o2] = heap[o2] ]_vars

\* Two sessions have records, one of them two screenshots and a video, all of
\* them in the metadata files.
C30_Witness ==
    \E s1, s2 \in SessionIds :
        /\ s1 # s2
        /\ sessions[s1] # NoObj
        /\ sessions[s2] # NoObj
        /\ disk[s1].meta = heap[sessions[s1]].metadata
        /\ disk[s2].meta = heap[sessions[s2]].metadata
        /\ Len(disk[s1].meta.screenshots) = 2
        /\ Len(disk[s1].meta.videos) = 1
        /\ Len(disk[s2].meta.screenshots) = 1

\* ------------------------------------------------------------------ C31
\* C31: the order of closeSession.  Its first step registers and renames the
\* video of a recording session, sets the status completed and writes the
\* metadata file, and touches neither the engine nor the store; its second
\* step closes the context; its last step releases the engine, and only that
\* step takes the entry out of the store.
HasRawVideo(d, h) == WantsVideo(h.metadata) /\ d.exists /\ VideoFiles(d) # {}

C31_CloseInOrder ==
    [][ \A t \in Tasks :
          (/\ task'[t] # task[t]
           /\ task'[t].op = "close"
           /\ task'[t].obj # NoObj)
          =>
          LET o == task'[t].obj
              sid == task'[t].sid
          IN
          /\ task'[t].pc = "close_context" =>
               /\ task[t].pc = "idle"
               /\ HasRawVideo(disk[sid], heap[o]) =>
                    /\ Len(heap'[o].metadata.videos) = Len(heap[o].metadata.videos) + 1
                    /\ <<"videos", heap'[o].videos[Len(heap'[o].videos)][4]>>
                          \in disk'[sid].files
               /\ heap'[o].metadata.status = "completed"
               /\ disk'[sid].meta = heap'[o].metadata
               /\ heap'[o].eng = heap[o].eng
               /\ sessions' = sessions
          /\ task'[t].pc = "close_browser" =>
               /\ task[t].pc = "close_context"
               /\ heap'[o].eng # "ready"
               /\ heap'[o].metadata = heap[o].metadata
               /\ disk' = disk
               /\ sessions' = sessions
          /\ (task'[t].pc = "done" /\ task[t].pc # "idle") =>
               /\ task[t].pc = "close_browser"
               /\ heap'[o].eng = "released"
               /\ disk' = disk
               /\ task'[t].ret.status = "success" =>
                    /\ sessions[sid] # NoObj
                    /\ sessions'[sid] = NoObj ]_vars

\* The closeSession of a recording session has returned: its video is on
\* record under its managed name, the status is completed, the engine is
\* released and the id is out of the store.
C31_Witness ==
    \E t \in Tasks :
        /\ task[t].op = "close"
        /\ task[t].pc = "done"
        /\ task[t].ret.status = "success"
        /\ heap[task[t].obj].eng = "released"
        /\ sessions[task[t].sid] = NoObj
        /\ disk[task[t].sid].meta.status = "completed"
        /\ Len(disk[task[t].sid].meta.videos) = 1
        /\ <<"videos", disk[task[t].sid].meta.videos[1].filename>>
              \in disk[task[t].sid].files

\* ------------------------------------------------------------------ C32
\* C32: no capture of a runSequence is written over the file of an earlier
\* capture: a step in which a post-action, checkpoint or error capture
\* succeeds adds a file to the screenshots directory.
CaptureSucceeds(old, new) ==
    /\ Len(new.log) = Len(old.log) + 1
    /\ new.log[Len(new.log)][2] \in {"after", "checkpoint", "error"}
    /\ new.log[Len(new.log)][3] = "ok"

C32_CapturesNeverOverwrite ==
    [][ \A t \in Tasks :
          (task[t].op = "sequence" /\ CaptureSucceeds(task[t], task'[t]))
          => gshots' # gshots ]_vars

\* ------------------------------------------------------------------ C33
\* C33: every screenshot record of a metadata file stands for a capture that
\* completed: when no screenshot request is waiting for the engine, the file
\* of every record is in the session directory.
CapturePending == \E t \in Tasks : task[t].pc = "take_shot"

C33_RecordsHaveCaptures ==
    ~CapturePending =>
        \A s \in SessionIds :
            disk[s].meta # NoMeta =>
                \A k \in 1..Len(disk[s].meta.screenshots) :
                    <<"screenshots", disk[s].meta.screenshots[k].filename>>
                        \in disk[s].files

\* ------------------------------------------------------------------ C34
\* C34: a metadata write that fails during an add leaves the session as it
\* was in memory.  A screenshot request that found its session and ends in a
\* fault before any engine call (its add raised) has changed no session_data.
AddRaised(old, new) ==
    /\ old.pc = "idle"
    /\ new.op = "screenshot"
    /\ new.pc = "done"
    /\ new.obj # NoObj
    /\ new.ret.status = "http_500"

C34_FailedWriteChangesNothing ==
    [][ \A t \in Tasks : AddRaised(task[t], task'[t]) => heap' = heap ]_vars

\* ------------------------------------------------------------------ C35
\* C35: when every engine call returns or fails, a runSequence that was
\* accepted ends paused, completed or failed.
SequenceAccepted(t) == task[t].op = "sequence" /\ task[t].obj # NoObj

SequenceEnded(t) ==
    /\ task[t].pc = "done"
    /\ task[t].ret.status \in {"paused_for_analysis", "completed", "error"}

C35_SequenceTerminates ==
    \A t \in Tasks : SequenceAccepted(t) ~> SequenceEnded(t)

\* ------------------------------------------------------------------ C36
\* C36: an execute request with neither or both of command and term is
\* answered 400 and starts no process, and a process is started only for a
\* request with exactly one of the two.
ExecuteReturned(t) == task[t].op = "execute" /\ task[t].pc = "done"

KeysGiven(st) == Cardinality(ProvidedKeys(st.command, st.term))

C36_FormatErrorIs400 ==
    \A t \in Tasks :
        ExecuteReturned(t) =>
            /\ KeysGiven(task[t]) # 1 =>
                  /\ task[t].ret.status = "http_400"
                  /\ task[t].ran = <<>>
            /\ task[t].ran # <<>> => KeysGiven(task[t]) = 1

====
